---- MODULE Spec2Model ----
(***************************************************************************)
(* Model of the Secret-Santa draw backend (src/unnamed/part_000).          *)
(*                                                                         *)
(*  - generateAssignments and shuffle (lines 43-94): the bounded           *)
(*    randomized retry that pairs users[i] with shuffledIds[i].            *)
(*  - the in-memory session registry and its routes (lines 37, 103-247).   *)
(*                                                                         *)
(* Two specifications are given.  SpecGen drives one call of               *)
(* generateAssignments, one loop iteration per step, on an arbitrary       *)
(* bounded user list.  Spec is the service: one action per route, the      *)
(* ready route running generateAssignments to completion.                  *)
(***************************************************************************)
EXTENDS Integers, Sequences, FiniteSets, TLC

VARIABLES
    sessions,     \* const sessions = new Map<string, Session>()
    nextUser,     \* number of user UUIDs handed out so far
    users,        \* generateAssignments: the argument
    userIds,      \* generateAssignments: const userIds
    attempts,     \* generateAssignments: let attempts
    shuffledIds,  \* generateAssignments: let shuffledIds
    valid,        \* generateAssignments: let valid (of the last iteration)
    pc,           \* generateAssignments: position in the function
    result        \* generateAssignments: returned Map or thrown Error

genVars == <<users, userIds, attempts, shuffledIds, valid, pc, result>>
svcVars == <<sessions, nextUser>>
vars == <<sessions, nextUser, users, userIds, attempts, shuffledIds, valid, pc, result>>

(***************************************************************************)
(* Bounds and program constants                                            *)
(***************************************************************************)
\* while (attempts < 1000) / if (attempts >= 1000)
RetryBudget == 1000

\* ids of the users a call of generateAssignments may be given
UserIds == <<"u1", "u2", "u3">>

\* at most this many entries in all excludedUserIds lists of a SpecGen input
MaxExcluded == 2

\* the 6-character session ids randomUUID().slice(0, 6) may return
SessionIds == {"s1", "s2"}

\* the names given in join requests ("" stands for a missing name); names
\* are only compared with the names of the same session, and the creators
\* of the sessions take the first of them
Names == {"a", "b", "c"}
CreatorNames == {"a"}

\* the attempts at which a source of shuffles first leaves the input order
FirstAttempts == {1, 2, RetryBudget - 1, RetryBudget}

NotEnoughUsers == "Not enough users"
GenerationFailed == "Impossible to generate valid assignments"

(***************************************************************************)
(* Utils                                                                   *)
(***************************************************************************)
Range(seq) == {seq[i] : i \in DOMAIN seq}

\* faulty variant: only the first element is compared
Includes_FirstOnly(array, x) == array # <<>> /\ array[1] = x

\* Array.prototype.includes
Includes(array, x) == \E i \in DOMAIN array : array[i] = x

\* !assignedId : the empty string is the only falsy string
Falsy(id) == id = ""

Bijections(n) == {f \in [1..n -> 1..n] : \A i, j \in 1..n : f[i] = f[j] => i = j}

\* faulty variant: a shuffle that may repeat an element and drop another
shuffle_WithRepeats(array) ==
    {[i \in 1..Len(array) |-> array[f[i]]] : f \in [1..Len(array) -> 1..Len(array)]}

\* shuffle: a copy of the array sorted with a comparator that answers at
\* random; the outcome is some permutation of the array, any of them.
shuffle(array) ==
    {[i \in 1..Len(array) |-> array[f[i]]] : f \in Bijections(Len(array))}

\* faulty variant: the array is sorted in place
ArrayAfterShuffle_InPlace(array, s) == s

\* the argument of shuffle once shuffle has returned s: the sort of line 44
\* runs on the copy [...array], the argument keeps its order
ArrayAfterShuffle(array, s) == array

\* users.map(u => u.id)
userIdsOf(us) == [i \in 1..Len(us) |-> us[i].id]

\* faulty variant: validation without assignedId === user.id
Validate_NoSelfCheck(us, shuffled) ==
    \A i \in 1..Len(us) :
        ~ ( \/ Falsy(shuffled[i])
            \/ Includes(us[i].excludedUserIds, shuffled[i]) )

\* faulty variant: validation without user.excludedUserIds.includes(assignedId)
Validate_NoExclusionCheck(us, shuffled) ==
    \A i \in 1..Len(us) :
        ~ ( \/ Falsy(shuffled[i])
            \/ shuffled[i] = us[i].id )

\* the for loop of lines 63-75: valid stays true iff no index is rejected
Validate(us, shuffled) ==
    \A i \in 1..Len(us) :
        ~ ( \/ Falsy(shuffled[i])
            \/ shuffled[i] = us[i].id
            \/ Includes(us[i].excludedUserIds, shuffled[i]) )

\* faulty variant: only the empty list is rejected
TooFew_OnlyEmpty(us) == Len(us) < 1

\* if (users.length < 2) throw
TooFew(us) == Len(us) < 2

\* faulty variant: one iteration too many
LoopCond_OffByOne(a) == a <= RetryBudget

\* while (attempts < 1000)
LoopCond(a) == a < RetryBudget

\* faulty variant: the exhausted budget goes unnoticed
BudgetExhausted_Never(a) == FALSE

\* faulty variant: the budget counts as exhausted one attempt later
BudgetExhausted_Above(a) == a > RetryBudget

\* if (attempts >= 1000) throw
BudgetExhausted(a) == a >= RetryBudget

\* lines 84-93: result.set(user.id, assignedId) for i = 0 .. users.length-1
\* (a later set of the same key overwrites the earlier one)
BuildResult(us, shuffled) ==
    [id \in Range(userIdsOf(us)) |->
        LET last == CHOOSE i \in 1..Len(us) :
                        /\ us[i].id = id
                        /\ \A j \in 1..Len(us) : us[j].id = id => j <= i
        IN  shuffled[last]]

Err(msg) == [error |-> msg]
Ok(map) == [map |-> map]
IsErr(r) == "error" \in DOMAIN r
IsOk(r) == "map" \in DOMAIN r
NoResult == [none |-> TRUE]

(***************************************************************************)
(* generateAssignments, one step per loop iteration                        *)
(***************************************************************************)
\* lines 47-55
GenEnter ==
    /\ pc = "enter"
    /\ IF TooFew(users)
         THEN /\ result' = Err(NotEnoughUsers)
              /\ pc' = "done"
              /\ UNCHANGED <<userIds, attempts, shuffledIds>>
         ELSE /\ userIds' = userIdsOf(users)
              /\ shuffledIds' = <<>>
              /\ attempts' = 0
              /\ pc' = "loop"
              /\ UNCHANGED result
    /\ UNCHANGED <<users, valid, svcVars>>

\* lines 57-78: one iteration of the while loop
GenAttempt ==
    /\ pc = "loop"
    /\ LoopCond(attempts)
    /\ \E s \in shuffle(userIds) :
          /\ attempts' = attempts + 1
          /\ shuffledIds' = s
          /\ userIds' = ArrayAfterShuffle(userIds, s)
          /\ valid' = Validate(users, s)
          /\ pc' = IF Validate(users, s) THEN "after" ELSE "loop"
    /\ UNCHANGED <<users, result, svcVars>>

\* line 57: the loop condition is false
GenLoopExit ==
    /\ pc = "loop"
    /\ ~LoopCond(attempts)
    /\ pc' = "after"
    /\ UNCHANGED <<users, userIds, attempts, shuffledIds, valid, result, svcVars>>

\* lines 80-93
GenFinish ==
    /\ pc = "after"
    /\ result' = IF BudgetExhausted(attempts)
                   THEN Err(GenerationFailed)
                   ELSE Ok(BuildResult(users, shuffledIds))
    /\ pc' = "done"
    /\ UNCHANGED <<users, userIds, attempts, shuffledIds, valid, svcVars>>

(***************************************************************************)
(* Inputs of SpecGen                                                       *)
(***************************************************************************)
\* the exclusion lists considered for a user: duplicate-free lists of ids
ExclusionLists ==
    {<<>>} \cup {<<a>> : a \in Range(UserIds)}
           \cup {l \in [1..2 -> Range(UserIds)] : l[1] # l[2]}

RECURSIVE TotalExcluded(_)
TotalExcluded(us) ==
    IF us = <<>> THEN 0
    ELSE Len(Head(us).excludedUserIds) + TotalExcluded(Tail(us))

GenInputs ==
    UNION { { us \in [1..n -> [id : Range(UserIds), name : {"n"},
                               excludedUserIds : ExclusionLists,
                               ready : {TRUE}]] :
                /\ \A i \in 1..n : us[i].id = UserIds[i]
                /\ TotalExcluded(us) <= MaxExcluded }
            : n \in 0..Len(UserIds) }

(***************************************************************************)
(* generateAssignments run to completion on a given source of shuffles     *)
(***************************************************************************)
\* A source of shuffle outcomes: shuffle returns the input order (which
\* always fails validation, every user drawing itself) at the attempts
\* before src.first, and src.p at every attempt from src.first on.
ShuffleSources(array) ==
    {[first |-> k, p |-> q] : k \in FirstAttempts, q \in shuffle(array)}

\* the locals of generateAssignments before the first iteration (lines 54-55)
Frame0 == [attempts |-> 0, shuffledIds |-> <<>>, valid |-> FALSE]

Min(a, b) == IF a <= b THEN a ELSE b

\* The while loop of lines 57-78 over at most n iterations in each of which
\* shuffle returns s.  If s validates, the first iteration breaks out with
\* it; if not, every iteration fails alike and the loop goes on until the n
\* iterations are done or attempts reaches the budget.
RunSame(us, f, s, n) ==
    IF n <= 0 \/ f.valid \/ ~LoopCond(f.attempts) THEN f
    ELSE IF Validate(us, s)
      THEN [attempts |-> f.attempts + 1, shuffledIds |-> s, valid |-> TRUE]
      ELSE [attempts |-> Min(f.attempts + n, RetryBudget), shuffledIds |-> s,
            valid |-> FALSE]

\* lines 47-94, on the source of shuffle outcomes src
generateAssignments(us, src) ==
    IF TooFew(us) THEN Err(NotEnoughUsers)
    ELSE LET ids == userIdsOf(us)
             f == RunSame(us, RunSame(us, Frame0, ids, src.first - 1),
                          src.p, RetryBudget)
         IN  IF BudgetExhausted(f.attempts)
               THEN Err(GenerationFailed)
               ELSE Ok(BuildResult(us, f.shuffledIds))

(***************************************************************************)
(* The session registry and its routes.  A route is an action (what the    *)
(* handler does to the registry) and a response (what it answers).         *)
(***************************************************************************)
Undefined == [undefined |-> TRUE]

Response(status, body) == [status |-> status, body |-> body]
Error(status, msg) == [status |-> status, body |-> [error |-> msg]]

\* session.users.get(userId): the index of the user in insertion order, 0 if none
IndexOfUser(us, userId) ==
    IF \E i \in DOMAIN us : us[i].id = userId
      THEN CHOOSE i \in DOMAIN us : us[i].id = userId
      ELSE 0

\* sessions.set(sessionId, session)
MapSet(map, key, value) ==
    [k \in DOMAIN map \cup {key} |-> IF k = key THEN value ELSE map[k]]

\* user.excludedUserIds after lines 185-190
Toggled(list, excludedUserId) ==
    IF ~Includes(list, excludedUserId)
      THEN Append(list, excludedUserId)
      ELSE LET index == CHOOSE i \in DOMAIN list :
                            /\ list[i] = excludedUserId
                            /\ \A j \in DOMAIN list : list[j] = excludedUserId => i <= j
           IN  [i \in 1..(Len(list) - 1) |-> IF i < index THEN list[i] ELSE list[i + 1]]

\* faulty variant: one ready user is enough
AllReady_Some(us) == \E i \in DOMAIN us : us[i].ready

\* Array.from(session.users.values()).every(u => u.ready)
AllReady(us) == \A i \in DOMAIN us : us[i].ready

\* if (session.assignments)
HasAssignments(session) == session.assignments # Undefined

\* faulty variant: the new user does not exclude itself
NewUser_NoSelf(userId, name) ==
    [id |-> userId, name |-> name, excludedUserIds |-> <<>>, ready |-> FALSE]

\* lines 111-116 and 141-146: the user a create or join request adds
NewUser(userId, name) ==
    [id |-> userId, name |-> name, excludedUserIds |-> <<userId>>, ready |-> FALSE]

\* randomUUID() for a user id: a value never returned before (requests that
\* need one are taken while the ids of UserIds last)
FreshUserId == UserIds[nextUser + 1]

\* Under Spec, users and result are the argument and the outcome of the call
\* of generateAssignments made by the request just handled, if it made one;
\* the loop's locals are followed under SpecGen only.
NoCall ==
    /\ users' = <<>>
    /\ result' = NoResult
    /\ UNCHANGED <<userIds, attempts, shuffledIds, valid, pc>>

Called(us, r) ==
    /\ users' = us
    /\ result' = r
    /\ UNCHANGED <<userIds, attempts, shuffledIds, valid, pc>>

\* the user ids handed out so far, the ones a client can know
IssuedUserIds == {UserIds[i] : i \in 1..nextUser}

\* POST /sessions (lines 103-125)
CreateSessionResponse(name, sessionId) ==
    IF name = "" THEN Error(400, "Invalid name")
    ELSE Response(200, [sessionId |-> sessionId, userId |-> FreshUserId])

CreateSession(name, sessionId) ==
    /\ nextUser < Len(UserIds)
    /\ IF name = ""
         THEN UNCHANGED <<sessions, nextUser>>
         ELSE /\ sessions' = MapSet(sessions, sessionId,
                                    [id |-> sessionId,
                                     users |-> <<NewUser(FreshUserId, name)>>,
                                     assignments |-> Undefined])
              /\ nextUser' = nextUser + 1
    /\ NoCall

\* POST /sessions/:id/join (lines 128-149)
JoinSessionResponse(id, name) ==
    IF id \notin DOMAIN sessions THEN Error(404, "Session not found")
    ELSE IF name = "" THEN Error(400, "Invalid name")
    ELSE IF \E i \in DOMAIN sessions[id].users : sessions[id].users[i].name = name
      THEN Error(400, "Name already used")
    ELSE Response(200, [userId |-> FreshUserId])

JoinSession(id, name) ==
    /\ nextUser < Len(UserIds)
    /\ IF JoinSessionResponse(id, name).status # 200
         THEN UNCHANGED <<sessions, nextUser>>
         ELSE /\ sessions' = [sessions EXCEPT
                                ![id].users = Append(@, NewUser(FreshUserId, name))]
              /\ nextUser' = nextUser + 1
    /\ NoCall

\* GET /sessions/:id (lines 152-166)
GetSessionResponse(id) ==
    IF id \notin DOMAIN sessions THEN Error(404, "Session not found")
    ELSE Response(200, [id |-> sessions[id].id,
                        users |-> sessions[id].users,
                        hasResult |-> HasAssignments(sessions[id])])

GetSession(id) == NoCall /\ UNCHANGED <<sessions, nextUser>>

\* POST /sessions/:id/exclusions (lines 169-196)
ExclusionsAfterToggle(id, userId, excludedUserId) ==
    LET us == sessions[id].users
    IN  Toggled(us[IndexOfUser(us, userId)].excludedUserIds, excludedUserId)

\* faulty variant: toggles are accepted after the draw
ToggleExclusionResponse_AfterDraw(id, userId, excludedUserId) ==
    IF id \notin DOMAIN sessions THEN Error(404, "Session not found")
    ELSE IF IndexOfUser(sessions[id].users, userId) = 0 THEN Error(404, "User not found")
    ELSE IF userId = excludedUserId THEN Error(400, "Cannot exclude yourself")
    ELSE Response(200, [excludedUserIds |->
                            ExclusionsAfterToggle(id, userId, excludedUserId)])

ToggleExclusionResponse(id, userId, excludedUserId) ==
    IF id \notin DOMAIN sessions THEN Error(404, "Session not found")
    ELSE IF HasAssignments(sessions[id]) THEN Error(400, "Draw already done")
    ELSE IF IndexOfUser(sessions[id].users, userId) = 0 THEN Error(404, "User not found")
    ELSE IF userId = excludedUserId THEN Error(400, "Cannot exclude yourself")
    ELSE Response(200, [excludedUserIds |->
                            ExclusionsAfterToggle(id, userId, excludedUserId)])

\* faulty variant: the ready flags are left as they are
ToggleExclusion_KeepsReady(id, userId, excludedUserId) ==
    /\ IF ToggleExclusionResponse(id, userId, excludedUserId).status # 200
         THEN UNCHANGED sessions
         ELSE LET us == sessions[id].users
                  u == IndexOfUser(us, userId)
                  list == ExclusionsAfterToggle(id, userId, excludedUserId)
              IN  sessions' = [sessions EXCEPT ![id].users =
                     [i \in DOMAIN us |->
                         [us[i] EXCEPT !.excludedUserIds = IF i = u THEN list ELSE @]]]
    /\ NoCall
    /\ UNCHANGED nextUser

ToggleExclusion(id, userId, excludedUserId) ==
    /\ IF ToggleExclusionResponse(id, userId, excludedUserId).status # 200
         THEN UNCHANGED sessions
         ELSE LET us == sessions[id].users
                  u == IndexOfUser(us, userId)
                  list == ExclusionsAfterToggle(id, userId, excludedUserId)
              IN  sessions' = [sessions EXCEPT ![id].users =
                     [i \in DOMAIN us |->
                         [us[i] EXCEPT !.excludedUserIds = IF i = u THEN list ELSE @,
                                       !.ready = FALSE]]]
    /\ NoCall
    /\ UNCHANGED nextUser

\* POST /sessions/:id/ready (lines 199-229); userId = "" is a missing header
SetReadyRejection(id, userId) ==
    IF id \notin DOMAIN sessions THEN Error(404, "Session not found")
    ELSE IF userId = "" THEN Error(400, "userId manquant ou invalide")
    ELSE IF IndexOfUser(sessions[id].users, userId) = 0 THEN Error(404, "User not found")
    ELSE Undefined

\* session.users after user.ready = true (line 217)
UsersAfterReady(id, userId) ==
    [sessions[id].users EXCEPT ![IndexOfUser(sessions[id].users, userId)].ready = TRUE]

\* faulty variant: the draw is made whenever all are ready
DrawsNow_IgnoringResult(id, userId) == AllReady(UsersAfterReady(id, userId))

\* faulty variant: the draw is made only by the request that turns the
\* last flag
DrawsNow_OnLastFlag(id, userId) ==
    /\ AllReady(UsersAfterReady(id, userId))
    /\ ~HasAssignments(sessions[id])
    /\ ~AllReady(sessions[id].users)

\* line 222: allReady && !session.assignments
DrawsNow(id, userId) ==
    AllReady(UsersAfterReady(id, userId)) /\ ~HasAssignments(sessions[id])

\* the response when the shuffles of the draw, if one is made, come from src;
\* an Error thrown by generateAssignments leaves the handler and is answered
\* by the framework with status 500
SetReadyResponse(id, userId, src) ==
    IF SetReadyRejection(id, userId) # Undefined THEN SetReadyRejection(id, userId)
    ELSE IF DrawsNow(id, userId)
              /\ IsErr(generateAssignments(UsersAfterReady(id, userId), src))
      THEN Error(500, generateAssignments(UsersAfterReady(id, userId), src).error)
    ELSE Response(200, [status |-> "ready"])

\* the handler when the shuffles of the draw, if one is made, come from src
SetReadyWith(id, userId, src) ==
    /\ IF SetReadyRejection(id, userId) # Undefined
         THEN UNCHANGED sessions /\ NoCall
       ELSE IF ~DrawsNow(id, userId)
         THEN /\ sessions' = [sessions EXCEPT ![id].users = UsersAfterReady(id, userId)]
              /\ NoCall
         ELSE LET r == generateAssignments(UsersAfterReady(id, userId), src)
              IN  /\ sessions' = [sessions EXCEPT
                        ![id].users = UsersAfterReady(id, userId),
                        ![id].assignments = IF IsErr(r) THEN @ ELSE r]
                  /\ Called(UsersAfterReady(id, userId), r)
    /\ UNCHANGED nextUser

\* a ready request that reaches line 222 and makes the draw
Draws(id, userId) ==
    /\ id \in DOMAIN sessions
    /\ SetReadyRejection(id, userId) = Undefined
    /\ DrawsNow(id, userId)

\* the sources of shuffles a ready request may meet (one that makes no draw
\* calls no shuffle)
ReadySources(id, userId) ==
    IF Draws(id, userId) THEN ShuffleSources(userIdsOf(sessions[id].users))
    ELSE {[first |-> 1, p |-> <<>>]}

SetReady(id, userId) ==
    \E src \in ReadySources(id, userId) : SetReadyWith(id, userId, src)

\* GET /sessions/:id/result (lines 234-247)
GetResultResponse(id, userId) ==
    IF id \notin DOMAIN sessions \/ ~HasAssignments(sessions[id])
      THEN Error(400, "No result yet")
    ELSE IF userId \notin DOMAIN sessions[id].assignments.map
      THEN Error(404, "Result not found")
    ELSE LET us == sessions[id].users
             a == IndexOfUser(us, sessions[id].assignments.map[userId])
         IN  Response(200, [name |-> IF a = 0 THEN Undefined ELSE us[a].name])

GetResult(id, userId) == NoCall /\ UNCHANGED <<sessions, nextUser>>

\* the ids of the users of session id
SessionUserIds(id) == Range(userIdsOf(sessions[id].users))

Init ==
    /\ sessions = << >>
    /\ nextUser = 0
    /\ users = <<>>
    /\ userIds = <<>>
    /\ attempts = 0
    /\ shuffledIds = <<>>
    /\ valid = FALSE
    /\ pc = "idle"
    /\ result = NoResult

Next ==
    \/ \E name \in CreatorNames \cup {""}, sessionId \in SessionIds :
          CreateSession(name, sessionId)
    \/ \E id \in SessionIds, name \in Names \cup {""} : JoinSession(id, name)
    \/ \E id \in SessionIds : GetSession(id)
    \/ \E id \in SessionIds, userId \in Range(UserIds), excludedUserId \in IssuedUserIds :
          ToggleExclusion(id, userId, excludedUserId)
    \/ \E id \in SessionIds, userId \in Range(UserIds) \cup {""} : SetReady(id, userId)
    \/ \E id \in SessionIds, userId \in Range(UserIds) : GetResult(id, userId)

Spec == Init /\ [][Next]_vars

(***************************************************************************)
(* Specifications                                                          *)
(***************************************************************************)
InitGen ==
    /\ sessions = << >>
    /\ nextUser = 0
    /\ users \in GenInputs
    /\ userIds = <<>>
    /\ attempts = 0
    /\ shuffledIds = <<>>
    /\ valid = FALSE
    /\ pc = "enter"
    /\ result = NoResult

NextGen == GenEnter \/ GenAttempt \/ GenLoopExit \/ GenFinish

SpecGen == InitGen /\ [][NextGen]_vars
(***************************************************************************)
(* The two renderings of generateAssignments agree: a call that ended      *)
(* after `attempts` iterations with shuffledIds as the last outcome has    *)
(* the result of the source that leaves the input order at that attempt.   *)
(***************************************************************************)
AcceleratedLoopAgrees ==
    (pc = "done" /\ ~TooFew(users)) =>
        /\ result = generateAssignments(users, [first |-> attempts, p |-> shuffledIds])
        \* and the sources the service tries yield every outcome of a call
        /\ \E src \in ShuffleSources(userIdsOf(users)) :
              result = generateAssignments(users, src)

(***************************************************************************)
(* Properties of generateAssignments (checked under SpecGen)               *)
(***************************************************************************)
Returned == pc = "done" /\ IsOk(result)
Threw(msg) == pc = "done" /\ result = Err(msg)
InputIds == Range(userIdsOf(users))

\* C1: every returned assignment (N >= 2 users, distinct ids) is a
\* permutation of the user ids: its givers are exactly the input ids, and
\* each input id occurs exactly once as a recipient.
C1_ReturnedIsPermutation ==
    Returned =>
        /\ Len(users) >= 2
        /\ DOMAIN result.map = InputIds
        /\ \A r \in InputIds :
              Cardinality({g \in DOMAIN result.map : result.map[g] = r}) = 1
        /\ \A g \in DOMAIN result.map : result.map[g] \in InputIds

C1_Witness == Returned /\ Len(users) = 3 /\ attempts > 1

\* C2: no returned assignment maps a user to itself, also when the user's
\* excludedUserIds does not contain the user's own id.
C2_NoSelfAssignment ==
    Returned => \A g \in DOMAIN result.map : result.map[g] # g

C2_Witness ==
    /\ Returned
    /\ \A i \in DOMAIN users : users[i].id \notin Range(users[i].excludedUserIds)

\* C3: in every returned assignment the recipient of a giver u is not in
\* u.excludedUserIds (and u excluding v does not restrict v's recipient).
C3_ExclusionsRespected ==
    Returned =>
        \A i \in DOMAIN users :
            result.map[users[i].id] \notin Range(users[i].excludedUserIds)

\* u excludes v, v does not exclude u, and v draws u
C3_Witness ==
    /\ Returned
    /\ \E i, j \in DOMAIN users :
          /\ users[j].id \in Range(users[i].excludedUserIds)
          /\ users[i].id \notin Range(users[j].excludedUserIds)
          /\ result.map[users[j].id] = users[i].id

\* C4: whichever attempt k in 1..1000 is the first to validate, the call
\* returns exactly that pairing; it throws "Impossible to generate valid
\* assignments" only if no attempt validated.  (The loop leaves at the first
\* valid attempt, so a call that ended with valid = TRUE ended on it.)
C4_FirstValidAttemptIsReturned ==
    (pc = "done" /\ ~TooFew(users)) =>
        /\ valid => result = Ok(BuildResult(users, shuffledIds))
        /\ result = Err(GenerationFailed) => ~valid

\* C5: with 0 or 1 users the call throws "Not enough users" before any
\* shuffle or validation, and returns no mapping.
C5_TooFewUsersRejected ==
    Len(users) < 2 =>
        /\ pc \in {"enter", "done"}
        /\ attempts = 0
        /\ shuffledIds = <<>>
        /\ pc = "done" => result = Err(NotEnoughUsers)

C5_Witness == Threw(NotEnoughUsers) /\ Len(users) = 1

\* a permutation of the ids that gives nobody itself or an excluded id
Feasible(us) ==
    \E f \in Bijections(Len(us)) :
        \A i \in 1..Len(us) :
            /\ f[i] # i
            /\ \A k \in DOMAIN us[i].excludedUserIds :
                  us[i].excludedUserIds[k] # us[f[i]].id

\* C6: on an input of 2 or more users for which no such permutation exists,
\* a call never returns a mapping: whatever the shuffles, it ends in
\* "Impossible to generate valid assignments".
C6_InfeasibleAlwaysFails ==
    (Len(users) >= 2 /\ ~Feasible(users)) =>
        /\ ~Returned
        /\ pc = "done" => result = Err(GenerationFailed) /\ attempts = RetryBudget

\* two users, the first excluding the second
C6_Witness ==
    /\ Threw(GenerationFailed)
    /\ Len(users) = 2
    /\ users[1].excludedUserIds = <<users[2].id>>
    /\ users[2].excludedUserIds = <<>>

\* the steps a call can still take, at most
Variant ==
    CASE pc = "enter" -> RetryBudget + 3
      [] pc = "loop"  -> (RetryBudget - attempts) + 2
      [] pc = "after" -> 1
      [] pc = "done"  -> 0

\* C10: every call terminates, with a mapping or an error, after at most
\* 1000 attempts: the attempt counter never exceeds the retry budget, every
\* step of a call lowers a bounded natural number (so no call runs for
\* ever), and a call has ended exactly when it has returned a mapping or
\* thrown an error.
WithinBudget ==
    /\ attempts \in 0..RetryBudget
    /\ Variant \in 0..(RetryBudget + 3)
    /\ pc = "done" <=> (IsOk(result) \/ IsErr(result))

C10_TerminatesWithinBudget ==
    [][WithinBudget /\ WithinBudget' /\ Variant' < Variant]_vars

C10_Witness == pc = "done" /\ attempts = RetryBudget
(***************************************************************************)
(* Properties of the service (checked under Spec)                          *)
(***************************************************************************)
\* the creator of a session: its first user, whose id no other session has
Creator(session) == session.users[1].id

\* the user of a session with the given id
UserOf(session, userId) ==
    session.users[CHOOSE i \in DOMAIN session.users : session.users[i].id = userId]

\* a mapping that passes validation: its givers are users of the session,
\* its recipients are its givers, each once, nobody draws itself or an id of
\* its exclusion list
ValidMapping(session) ==
    LET m == session.assignments.map
    IN  /\ Cardinality(DOMAIN m) >= 2
        /\ DOMAIN m \subseteq {session.users[i].id : i \in DOMAIN session.users}
        /\ \A r \in DOMAIN m : Cardinality({g \in DOMAIN m : m[g] = r}) = 1
        /\ \A g \in DOMAIN m :
              /\ m[g] \in DOMAIN m
              /\ m[g] # g
              /\ m[g] \notin Range(UserOf(session, g).excludedUserIds)

\* the sessions of the user list a call of generateAssignments was given
SessionsOf(us) ==
    {id \in DOMAIN sessions : Creator(sessions[id]) = us[1].id}

\* C7: session.assignments is absent or a complete mapping that passed
\* validation, and a ready request whose draw fails, with either error,
\* leaves it absent: hasResult is false and the result route answers "No
\* result yet".  When the draw succeeds the session holds exactly the
\* returned mapping, with every user of the session as a giver.
C7_NoPartialAssignment ==
    /\ \A id \in DOMAIN sessions :
          HasAssignments(sessions[id]) => ValidMapping(sessions[id])
    /\ IsErr(result) =>
          /\ result.error \in {NotEnoughUsers, GenerationFailed}
          /\ SessionsOf(users) # {}
          /\ \A id \in SessionsOf(users) :
                /\ ~HasAssignments(sessions[id])
                /\ GetSessionResponse(id).body.hasResult = FALSE
                /\ \A u \in Range(UserIds) :
                      GetResultResponse(id, u) = Error(400, "No result yet")
    /\ IsOk(result) =>
          /\ SessionsOf(users) # {}
          /\ \A id \in SessionsOf(users) :
                /\ sessions[id].assignments = result
                /\ DOMAIN result.map = SessionUserIds(id)

\* the draw of a session of two users has just failed
C7_Witness ==
    /\ result = Err(GenerationFailed)
    /\ Len(users) = 2
    /\ \E id \in SessionsOf(users) : AllReady(sessions[id].users)

C11_NoSideEffects ==
    [][ /\ users' = users
        /\ sessions' = sessions
        /\ nextUser' = nextUser
        /\ (pc # "enter" /\ Len(users) >= 2) =>
               /\ userIds = [i \in 1..Len(users) |-> users[i].id]
               /\ userIds' = userIds ]_vars

\* a call of three users has returned after several shuffles, the last of
\* them not in the order of the input
C11_Witness ==
    /\ Returned
    /\ Len(users) = 3
    /\ attempts > 1
    /\ shuffledIds # userIds
    /\ \E i \in DOMAIN users : users[i].excludedUserIds # <<>>

\* C12: "Impossible to generate valid assignments" does not certify
\* infeasibility: for every input of 2 or more users that has a valid
\* assignment there is a sequence of shuffle outcomes under which the call
\* uses up the budget and throws it, and a call that ends after 1000
\* attempts throws it whether or not a valid assignment exists.
C12_FailureDespiteFeasible ==
    /\ (pc = "enter" /\ Len(users) >= 2 /\ Feasible(users)) =>
          \E src \in ShuffleSources(userIdsOf(users)) :
              generateAssignments(users, src) = Err(GenerationFailed)
    /\ (pc = "done" /\ attempts = RetryBudget) => result = Err(GenerationFailed)

\* three users without exclusions beyond themselves: 1000 shuffles, none of
\* them valid, and the call has thrown
C12_Witness ==
    /\ Threw(GenerationFailed)
    /\ Len(users) = 3
    /\ \A i \in DOMAIN users : Range(users[i].excludedUserIds) \subseteq {users[i].id}
    /\ Feasible(users)
    /\ attempts = RetryBudget
    /\ ~valid

(***************************************************************************)
(* Properties of the service, continued (checked under Spec)               *)
(***************************************************************************)
\* the step is a create, join, read, toggle-exclusion or result request
OtherThanReady ==
    \/ \E name \in CreatorNames \cup {""}, sessionId \in SessionIds :
          CreateSession(name, sessionId)
    \/ \E id \in SessionIds, name \in Names \cup {""} : JoinSession(id, name)
    \/ \E id \in SessionIds : GetSession(id)
    \/ \E id \in SessionIds, userId \in Range(UserIds), excludedUserId \in IssuedUserIds :
          ToggleExclusion(id, userId, excludedUserId)
    \/ \E id \in SessionIds, userId \in Range(UserIds) : GetResult(id, userId)

\* the step leaves session id with assignments it did not have before
GainsAssignments(id) ==
    /\ id \in DOMAIN sessions'
    /\ sessions'[id].assignments # Undefined
    /\ id \in DOMAIN sessions => sessions[id].assignments = Undefined

\* C13: session.assignments goes from absent to present only in a ready
\* request after which every user of the session is ready (the request
\* called generateAssignments on the session's users and stored what it
\* returned); no create, join, read, toggle-exclusion or result request
\* sets it.
C13_DrawOnlyWhenAllReady ==
    [][\A id \in SessionIds :
          GainsAssignments(id) =>
             /\ id \in DOMAIN sessions
             /\ \A i \in DOMAIN sessions'[id].users : sessions'[id].users[i].ready
             /\ users' = sessions'[id].users
             /\ result' = sessions'[id].assignments
             /\ ~OtherThanReady]_vars

\* the ready request of the last of three users has just made the draw
C13_Witness ==
    /\ IsOk(result)
    /\ Len(users) = 3
    /\ \E id \in DOMAIN sessions :
          /\ sessions[id].assignments = result
          /\ sessions[id].users = users
          /\ \A i \in DOMAIN users : users[i].ready

\* C14: every user of every session has its own id in excludedUserIds (it
\* is put there when the user is created, by create or join), and a
\* toggle-exclusion request with userId = excludedUserId is rejected and
\* changes no exclusion list and no ready flag; when the session exists,
\* has made no draw and has the user, the answer is "Cannot exclude
\* yourself".
C14_OwnIdAlwaysExcluded ==
    [][ /\ \A id \in DOMAIN sessions' :
              \A i \in DOMAIN sessions'[id].users :
                  sessions'[id].users[i].id \in Range(sessions'[id].users[i].excludedUserIds)
        /\ \A id \in SessionIds, u \in Range(UserIds) :
              /\ ToggleExclusionResponse(id, u, u).status \in {400, 404}
              /\ ( /\ id \in DOMAIN sessions
                   /\ sessions[id].assignments = Undefined
                   /\ u \in SessionUserIds(id) )
                 => ToggleExclusionResponse(id, u, u) =
                       Error(400, "Cannot exclude yourself")
              /\ sessions' # sessions => ~ToggleExclusion(id, u, u) ]_vars

\* a user that excludes another user besides itself, in a session without
\* a draw, where a request to toggle its own id is refused
C14_Witness ==
    \E id \in DOMAIN sessions :
        /\ sessions[id].assignments = Undefined
        /\ \E i \in DOMAIN sessions[id].users :
              LET u == sessions[id].users[i]
              IN  /\ Len(u.excludedUserIds) = 2
                  /\ u.excludedUserIds[1] = u.id
                  /\ ToggleExclusionResponse(id, u.id, u.id) =
                         Error(400, "Cannot exclude yourself")

\* the ids of the users session id has before and after the step
StayingUserIds(id) ==
    IF id \in DOMAIN sessions /\ id \in DOMAIN sessions'
      THEN SessionUserIds(id) \cap {sessions'[id].users[i].id : i \in DOMAIN sessions'[id].users}
      ELSE {}

\* C15: a step that changes the exclusion list of a user leaves every user
\* of the session not ready; a ready flag becomes true only by a ready
\* request of that user, which sets no other flag; and the draw is made on
\* the lists the session then has, with all its users ready.  So every user
\* of the session at the draw has issued a ready request since the last
\* change of an exclusion list.
C15_DrawAfterAllReadyAgain ==
    [][\A id \in DOMAIN sessions' :
          /\ (\E u \in StayingUserIds(id) :
                  UserOf(sessions'[id], u).excludedUserIds
                      # UserOf(sessions[id], u).excludedUserIds)
               => \A i \in DOMAIN sessions'[id].users : ~sessions'[id].users[i].ready
          /\ \A i \in DOMAIN sessions'[id].users :
                LET u == sessions'[id].users[i]
                IN  ( /\ u.ready
                      /\ u.id \in StayingUserIds(id) => ~UserOf(sessions[id], u.id).ready )
                    => /\ u.id \in StayingUserIds(id)
                       /\ sessions'[id].users = UsersAfterReady(id, u.id)
          /\ GainsAssignments(id) =>
                /\ users' = sessions'[id].users
                /\ \A i \in DOMAIN users' : users'[i].ready]_vars

\* a draw of three users, one of whom had changed its exclusion list
C15_Witness ==
    /\ IsOk(result)
    /\ \E id \in DOMAIN sessions :
          /\ sessions[id].assignments = result
          /\ sessions[id].users = users
          /\ \E i \in DOMAIN users : Len(users[i].excludedUserIds) = 2
          /\ \A i \in DOMAIN users : users[i].ready

\* every giver's recipient is neither the giver nor an id of the giver's
\* exclusion list as the list is now
RespectsExclusions(session) ==
    \A i \in DOMAIN session.users :
        LET u == session.users[i]
        IN  u.id \in DOMAIN session.assignments.map =>
               /\ session.assignments.map[u.id] # u.id
               /\ session.assignments.map[u.id] \notin Range(u.excludedUserIds)

\* C16: the assignments a session holds respect the exclusion lists its
\* users have now, because once the draw is done every toggle-exclusion
\* request on the session is answered "Draw already done" and changes no
\* exclusion list and no ready flag.
C16_StoredAssignmentRespectsExclusions ==
    [][ /\ \A id \in DOMAIN sessions' :
              sessions'[id].assignments # Undefined => RespectsExclusions(sessions'[id])
        /\ \A id \in DOMAIN sessions :
              sessions[id].assignments # Undefined =>
                 \A u \in Range(UserIds), e \in IssuedUserIds :
                    /\ ToggleExclusionResponse(id, u, e) = Error(400, "Draw already done")
                    /\ ToggleExclusion(id, u, e) => sessions' = sessions ]_vars

\* the draw is done for three users, one of them excluding another, and a
\* toggle of the recipient's id by its giver is refused
C16_Witness ==
    \E id \in DOMAIN sessions :
        /\ sessions[id].assignments # Undefined
        /\ Cardinality(DOMAIN sessions[id].assignments.map) = 3
        /\ \E i \in DOMAIN sessions[id].users :
              LET u == sessions[id].users[i]
              IN  /\ Len(u.excludedUserIds) = 2
                  /\ ToggleExclusionResponse(id, u.id, sessions[id].assignments.map[u.id])
                        = Error(400, "Draw already done")

\* C17: in every state where a session has assignments, the givers of the
\* assignments are exactly the users the session has now, and the result
\* route answers every user of the session with the name of a recipient.
C17_GiversAreSessionUsers ==
    \A id \in DOMAIN sessions :
        sessions[id].assignments # Undefined =>
           /\ DOMAIN sessions[id].assignments.map = SessionUserIds(id)
           /\ \A u \in SessionUserIds(id) :
                 /\ GetResultResponse(id, u).status = 200
                 /\ GetResultResponse(id, u).body.name \in Names

\* session id has all its users ready and no assignments: its last draw
\* has failed
DrawFailed(id) ==
    /\ sessions[id].assignments = Undefined
    /\ \A i \in DOMAIN sessions[id].users : sessions[id].users[i].ready

\* C18: a failed generation is not retried automatically.  A request calls
\* generateAssignments at most once (what it records is the outcome of one
\* call); after a failure the session has no assignments and all its
\* users, the requester among them, are still ready; it stays without
\* assignments through every request other than a ready request, none of
\* which calls the generator; and a further ready request of any of its
\* users reaches the call of the generator again.
C18_NoAutomaticRetry ==
    [][ /\ result' # NoResult =>
              \E src \in ShuffleSources(userIdsOf(users')) :
                  result' = generateAssignments(users', src)
        /\ IsErr(result') =>
              \E id \in DOMAIN sessions' :
                  /\ sessions'[id].users = users'
                  /\ sessions'[id].assignments = Undefined
                  /\ \A i \in DOMAIN users' : users'[i].ready
        /\ \A id \in DOMAIN sessions :
              DrawFailed(id) =>
                 /\ (result' # NoResult \/ sessions'[id].assignments # Undefined)
                       => ~OtherThanReady
                 /\ \A u \in SessionUserIds(id) : Draws(id, u) ]_vars

\* the draw of three users has just failed although a further ready request
\* can succeed
C18_Witness ==
    /\ result = Err(GenerationFailed)
    /\ Len(users) = 3
    /\ \E id \in DOMAIN sessions : sessions[id].users = users /\ DrawFailed(id)
    /\ \E src \in ShuffleSources(userIdsOf(users)) : IsOk(generateAssignments(users, src))
====
